---------------------------- MODULE Spec2Model ----------------------------
(***************************************************************************)
(* A model of deepqmc's checkpoint-driven training loop                    *)
(* (src/deepqmc/jax/train.py: train, CheckpointStore) and of the samplers  *)
(* (src/deepqmc/sampling.py: MoleculeIdxSampler, equilibrate,              *)
(* MultiNuclearGeometrySampler, MetropolisSampler, DecorrSampler,          *)
(* ResampledSampler, chain).                                               *)
(*                                                                         *)
(* The state machines share the module, each with its own specification:   *)
(*   SpecStore      CheckpointStore driven through its public methods      *)
(*   SpecTrain      train() from entry to exit, with the store it owns     *)
(*   SpecTrainFair  SpecTrain with a scheduler that keeps train() running  *)
(*   SpecIdx        MoleculeIdxSampler driven through sample()             *)
(*   SpecEq         the equilibrate generator, driven by its consumer      *)
(*   SpecMg         MultiNuclearGeometrySampler driven through sample()    *)
(*   SpecSm         a sampler made by chain(), driven through init,        *)
(*                  update and sample                                      *)
(* A specification keeps the variables of the other machines frozen.       *)
(***************************************************************************)
EXTENDS Integers, Sequences, FiniteSets, TLC

\* ------------------------------------------------------------------ bounds
MaxSize == 2          \* CheckpointStore(size=...) ranges over 1..MaxSize
MaxInterval == 2      \* CheckpointStore(min_interval=...) ranges over 1..MaxInterval
MaxStep == 4          \* update calls on one store (SpecStore)
MaxLoss == 2          \* finite losses are 0..MaxLoss
MaxStateVal == 1      \* distinct state payloads handed to update (SpecStore)
MaxRestarts == 2      \* train(max_restarts=...) ranges over 0..MaxRestarts
MaxTrainSteps == 3    \* train(steps=...) ranges over 0..MaxTrainSteps
MaxMols == 4          \* MoleculeIdxSampler(n_mols=...) ranges over 1..MaxMols
MaxKey == 1           \* the PRNG key given to MoleculeIdxSampler is 0..MaxKey
MaxCalls == 6         \* sample calls on one MoleculeIdxSampler
NDevices == 2         \* devices replicate_on_devices copies to
MaxBlockSize == 2     \* equilibrate(block_size=...) ranges over 1..MaxBlockSize
MaxNBlocks == 2       \* equilibrate(n_blocks=...) ranges over 1..MaxNBlocks
MaxEqSteps == 5       \* the steps iterable given to equilibrate has 0..MaxEqSteps items
MaxCrit == 1          \* criterion(phys_conf).item() is 0..MaxCrit
MaxGeoms == 2         \* MultiNuclearGeometrySampler has 1..MaxGeoms geometries
MaxMgCalls == 2       \* sample calls on one MultiNuclearGeometrySampler
MaxPos == 1           \* electron positions r are 0..MaxPos
NWalkers == 2         \* walkers in a sampler state (the n given to init)
MaxParam == 1         \* wave function parameters are 0..MaxParam
MaxLength == 2        \* DecorrSampler(length=...) ranges over 1..MaxLength
MaxPeriod == 2        \* ResampledSampler(period=...) is None or in 1..MaxPeriod
MaxAge == 2           \* MetropolisSampler(max_age=...) is None or in 1..MaxAge
MaxSmOps == 2         \* sample and update calls on one chained sampler

\* --------------------------------------------------------------- constants
ThresholdNum == 95    \* threshold = 0.95 = ThresholdNum / ThresholdDen
ThresholdDen == 100
TresholdScale == 100  \* ResampledSampler(treshold=...) is treshold / TresholdScale
TresholdTried == 90   \* the treshold tried: 0.9

\* ------------------------------------------------------------------ values
\* A loss is a float: a finite value 0..MaxLoss, or NaN.  Every ordered
\* comparison with a NaN is false.
NaN == 0 - 1
Losses == {NaN} \cup (0..MaxLoss)
IsNaN(x) == x = NaN

\* An optional argument left at None
NoneInt == 0 - 1

\* A training state (params, opt state, sampler state): v identifies the
\* payload, nan says whether sampler['psi'].log holds a NaN.
None == [v |-> 0 - 1, nan |-> FALSE]
MkState(v, nan) == [v |-> v, nan |-> nan]

VARIABLES
    \* CheckpointStore
    size,           \* self.size
    min_interval,   \* self.min_interval
    chkpts,         \* self.chkpts: sequence of Checkpoint(step, loss, path)
    step,           \* self.step
    buffer,         \* self.buffer
    files,          \* the chkpt-*.pt files of workdir: path |-> pickled state
    op,             \* the store method that ran last: "init", "update", "close"
    arg_loss,       \* the loss argument of the last update call
    arg_state,      \* the state argument of the last update call
    closed,         \* close() has been called
    \* train
    pc,             \* where train is: "setup", "init_fit", "equilibrate", "outer", "fit",
                    \* "nan", "after_fit", "finally", "done" ("idle": not running)
    workdir,        \* a workdir was given
    mode,           \* "train" (an optimizer was given) or "evaluate"
    max_restarts,   \* the max_restarts argument
    steps,          \* the steps argument
    attempt,        \* iterations of "for _ in range(max_restarts)" started
    pbar_start,     \* pbar is tqdm(range(pbar_start, steps))
    fit_step,       \* the step index the running fit_wf loop yields next
    cur_step,       \* the local variable step
    train_state,    \* the local variable train_state
    broke,          \* the last fit loop was left by the break of the NaN branch
    n_nan,          \* NaN detections so far
    n_rollbacks,    \* checkpoints reloaded so far
    outcome,        \* "running", "returned" (a state), "returned_none", or the
                    \* exception that left train
    ret,            \* the state train returned
    eq_step_parity, \* the step of the equilibration loop, modulo 2 (pbar is
                    \* tqdm(count()), which has no last step)
    n_close,        \* calls of chkpts.close() so far
    n_ewm,          \* calls of update_ewm so far
    n_rows,         \* steps whose table rows and metrics were written
    \* MoleculeIdxSampler
    n_mols,         \* self.n_mols
    batch_size,     \* self.batch_size
    shuffle,        \* self.shuffle: "False", "once" or "always"
    idx_state,      \* self.state, the position in the permutation
    permutation,    \* self.permutation, as the sequence of its entries
    rng,            \* self.rng
    returned,       \* what the last sample call returned, one copy per device
    hist,           \* per sample call so far: the position it started at and
                    \* the indices it returned
    \* equilibrate
    eq_block_size,  \* the block_size argument
    eq_n_blocks,    \* the n_blocks argument
    eq_steps,       \* items left in the steps iterable
    eq_buffer,      \* the local variable buffer
    eq_state,       \* the local variable state: the number of the sampling
                    \* step that produced it (0: the state passed in)
    eq_yielded,     \* the states yielded so far
    eq_pc,          \* where the generator is: "loop" (at the for statement),
                    \* "yielded" (suspended at the yield) or "done"
    eq_end,         \* how it ended: "break", "exhausted" or the exception
                    \* raised ("none": it has not ended)
    \* MultiNuclearGeometrySampler
    mg_n,           \* len(self.nuclear_coordinates)
    mg_state,       \* the state handed from call to call: per geometry, the
                    \* inner sampler's state
    mg_mol_idxs,    \* the mol_idxs argument of the last sample call
    mg_sampled,     \* sampled_states of the last sample call
    mg_calls,       \* sample calls so far
    \* a sampler made by chain(...)
    sm_pc,          \* "none" (chain not called), "made" (chain returned),
                    \* "ready" (init returned), "sampling" (inside a sample
                    \* call) or "failed" (a call raised)
    sm_bases,       \* the classes of the samplers given to chain, in order
    sm_length,      \* self.length
    sm_period,      \* self.period
    sm_treshold,    \* self.treshold
    sm_max_age,     \* self.max_age
    sm_target,      \* self.target_acceptance is set
    sm_params,      \* the params of the last init or update call
    sm_state,       \* the sampler state handed from call to call
    sm_err,         \* the exception the failing call raised
    sm_plan,        \* inside a sample call: the steps still to run
    sm_stats,       \* inside a sample call: the stats of the innermost call
    sm_scan,        \* inside a sample call: the stats lax.scan has stacked
    sm_ret,         \* what the last sample call returned
    sm_mv,          \* the last step of the mover: the positions proposed to
                    \* the walkers it moved, the acceptance decisions, and
                    \* the stats
    sm_n_mv,        \* steps of the mover in the running (or last) sample call
    sm_re,          \* the last resampling decision of the running call
    sm_since,       \* ResampledSampler.sample calls since init or the last
                    \* resampling
    sm_ops          \* sample and update calls so far

storeVars == <<size, min_interval, chkpts, step, buffer, files, op,
               arg_loss, arg_state, closed>>

trainVars == <<pc, workdir, mode, max_restarts, steps, attempt, pbar_start,
               fit_step, cur_step, train_state, broke, n_nan, n_rollbacks,
               outcome, ret, eq_step_parity, n_close, n_ewm, n_rows>>

idxVars == <<n_mols, batch_size, shuffle, idx_state, permutation, rng,
             returned, hist>>

eqVars == <<eq_block_size, eq_n_blocks, eq_steps, eq_buffer, eq_state,
            eq_yielded, eq_pc, eq_end>>

mgVars == <<mg_n, mg_state, mg_mol_idxs, mg_sampled, mg_calls>>

smConf == <<sm_bases, sm_length, sm_period, sm_treshold, sm_max_age, sm_target>>

smVars == <<sm_pc, smConf, sm_params, sm_state, sm_err, sm_plan, sm_stats,
            sm_scan, sm_ret, sm_mv, sm_n_mv, sm_re, sm_since, sm_ops>>

samplingVars == <<eqVars, mgVars, smVars>>

vars == <<storeVars, trainVars, idxVars, samplingVars>>

\* --------------------------------------------------------- CheckpointStore
\* PATTERN.format(step): the file name embeds the step, so the step stands
\* for the path.
PathOf(s) == s

Last(seq) == seq[Len(seq)]

\* float comparison a > threshold * b
GtThreshold(a, b) ==
    /\ ~IsNaN(a)
    /\ ~IsNaN(b)
    /\ a * ThresholdDen > ThresholdNum * b

\* The early-return condition of update, on the incremented step.
SkipNoIntervalCheck(s, chs, loss, mi) ==
    \/ s < mi
    \/ /\ chs # <<>>
       /\ GtThreshold(loss, Last(chs).loss)

Skip(s, chs, loss, mi) ==
    \/ s < mi
    \/ /\ chs # <<>>
       /\ \/ s < mi + Last(chs).step
          \/ GtThreshold(loss, Last(chs).loss)

\* dump: pickle the state into the file named for the current step.
DumpWrongPath(fs, s, state) == (PathOf(s + 1) :> state) @@ fs

Dump(fs, s, state) == (PathOf(s) :> state) @@ fs

\* path.unlink()
Unlink(fs, p) == [q \in (DOMAIN fs) \ {p} |-> fs[q]]

EvictNewest(chs, sz) ==
    IF Len(chs) > sz THEN SubSeq(chs, 1, sz) ELSE chs

\* while len(self.chkpts) > self.size: self.chkpts.pop(0).path.unlink()
RECURSIVE EvictChkpts(_, _)
EvictChkpts(chs, sz) ==
    IF Len(chs) > sz THEN EvictChkpts(Tail(chs), sz) ELSE chs

RECURSIVE EvictFiles(_, _, _)
EvictFiles(fs, chs, sz) ==
    IF Len(chs) > sz
    THEN EvictFiles(Unlink(fs, Head(chs).path), Tail(chs), sz)
    ELSE fs

\* CheckpointStore.__init__: no checkpoints, step 0, empty buffer, and the
\* chkpt-*.pt files of workdir removed.
StoreInit ==
    /\ chkpts = <<>>
    /\ step = 0
    /\ buffer = None
    /\ files = <<>>
    /\ op = "init"
    /\ arg_loss = 0
    /\ arg_state = None
    /\ closed = FALSE

\* CheckpointStore.update(loss, state)
StoreUpdate(loss, state) ==
    LET s == step + 1
        appended == Append(chkpts, [step |-> s, loss |-> loss, path |-> PathOf(s)])
    IN  /\ step' = s
        /\ buffer' = state
        /\ IF Skip(s, chkpts, loss, min_interval)
           THEN UNCHANGED <<chkpts, files>>
           ELSE /\ chkpts' = EvictChkpts(appended, size)
                /\ files' = EvictFiles(Dump(files, s, state), appended, size)
        /\ op' = "update"
        /\ arg_loss' = loss
        /\ arg_state' = state
        /\ UNCHANGED <<size, min_interval, closed>>

\* CheckpointStore.close()
StoreClose ==
    /\ files' = IF buffer # None THEN Dump(files, step, buffer) ELSE files
    /\ op' = "close"
    /\ closed' = TRUE
    /\ UNCHANGED <<size, min_interval, chkpts, step, buffer, arg_loss, arg_state>>

\* -------------------------------------------------------------- SpecStore
StateVals == {MkState(v, FALSE) : v \in 0..MaxStateVal}

TrainIdle ==
    /\ pc = "idle"
    /\ workdir = FALSE
    /\ mode = "train"
    /\ max_restarts = 0
    /\ steps = 0
    /\ attempt = 0
    /\ pbar_start = 0
    /\ fit_step = 0
    /\ cur_step = 0
    /\ train_state = None
    /\ broke = FALSE
    /\ n_nan = 0
    /\ n_rollbacks = 0
    /\ outcome = "running"
    /\ ret = None
    /\ eq_step_parity = 0
    /\ n_close = 0
    /\ n_ewm = 0
    /\ n_rows = 0

IdxIdle ==
    /\ n_mols = 1
    /\ batch_size = 1
    /\ shuffle = "False"
    /\ idx_state = 0
    /\ permutation = <<0>>
    /\ rng = 0
    /\ returned = <<>>
    /\ hist = <<>>

EqIdle ==
    /\ eq_block_size = 1
    /\ eq_n_blocks = 1
    /\ eq_steps = 0
    /\ eq_buffer = <<>>
    /\ eq_state = 0
    /\ eq_yielded = <<>>
    /\ eq_pc = "idle"
    /\ eq_end = "none"

MgIdle ==
    /\ mg_n = 0
    /\ mg_state = <<>>
    /\ mg_mol_idxs = <<>>
    /\ mg_sampled = <<>>
    /\ mg_calls = 0

\* No chain has been made.
SmIdle ==
    /\ sm_pc = "none"
    /\ sm_bases = <<>>
    /\ sm_length = NoneInt
    /\ sm_period = NoneInt
    /\ sm_treshold = NoneInt
    /\ sm_max_age = NoneInt
    /\ sm_target = FALSE
    /\ sm_params = 0
    /\ sm_state = <<>>
    /\ sm_err = "none"
    /\ sm_plan = <<>>
    /\ sm_stats = <<>>
    /\ sm_scan = <<>>
    /\ sm_ret = <<>>
    /\ sm_mv = <<>>
    /\ sm_n_mv = 0
    /\ sm_re = <<>>
    /\ sm_since = 0
    /\ sm_ops = 0

SamplingIdle == EqIdle /\ MgIdle /\ SmIdle

InitStore ==
    /\ size \in 1..MaxSize
    /\ min_interval \in 1..MaxInterval
    /\ StoreInit
    /\ TrainIdle
    /\ IdxIdle
    /\ SamplingIdle

Update ==
    /\ step < MaxStep
    /\ \E loss \in Losses, state \in StateVals : StoreUpdate(loss, state)
    /\ UNCHANGED <<trainVars, idxVars, samplingVars>>

Close == StoreClose /\ UNCHANGED <<trainVars, idxVars, samplingVars>>

NextStore == Update \/ Close

SpecStore == InitStore /\ [][NextStore]_vars


\* ------------------------------------------------------------------ train
\* CheckpointStore.last: the step and the unpickled state of chkpts[-1].
StoreLast(chs, fs) ==
    [step |-> Last(chs).step, state |-> fs[Last(chs).path]]

\* fit_wf iterates over pbar: its first step index is the start of pbar's
\* range, and it has a next step while the index is below steps.
FitWfFirst(start) == start

FitWfHasNext(i, n) == i < n

\* An exception leaves the try block: control goes to the finally clause.
Raise(e) ==
    /\ outcome' = e
    /\ pc' = "finally"

\* train is entered: mode and, with a workdir, CheckpointStore(workdir) with
\* its default size, min_interval and threshold (scaled here to small ranges).
InitTrain ==
    /\ size \in 1..MaxSize
    /\ min_interval \in 1..MaxInterval
    /\ StoreInit
    /\ workdir \in BOOLEAN
    /\ mode \in {"train", "evaluate"}
    /\ max_restarts \in 0..MaxRestarts
    /\ steps \in 0..MaxTrainSteps
    /\ pc = IF workdir THEN "setup" ELSE "init_fit"
    /\ eq_step_parity = 0
    /\ n_close = 0
    /\ n_ewm = 0
    /\ n_rows = 0
    /\ attempt = 0
    /\ pbar_start = 0
    /\ fit_step = 0
    /\ cur_step = 0
    /\ train_state = None
    /\ broke = FALSE
    /\ n_nan = 0
    /\ n_rollbacks = 0
    /\ outcome = "running"
    /\ ret = None
    /\ IdxIdle
    /\ SamplingIdle

\* With a workdir, after the store: the tensorboard writer and the HDF5 file
\* are opened, before the try block is entered; an exception there leaves
\* train without reaching the finally clause.
Setup ==
    /\ pc = "setup"
    /\ UNCHANGED <<idxVars, samplingVars>>
    /\ \/ /\ pc' = "init_fit"
          /\ UNCHANGED outcome
       \/ /\ pc' = "done"
          /\ outcome' = "SetupException"
    /\ UNCHANGED <<storeVars, workdir, mode, max_restarts, steps, attempt,
                   pbar_start, fit_step, cur_step, train_state, broke, n_nan,
                   n_rollbacks, ret>>
    /\ UNCHANGED <<eq_step_parity, n_close, n_ewm, n_rows>>

\* params, smpl_state = init_fit(...), which may raise.
InitFit ==
    /\ pc = "init_fit"
    /\ UNCHANGED <<idxVars, samplingVars>>
    /\ \/ /\ pc' = "equilibrate"
          /\ UNCHANGED outcome
       \/ Raise("Exception")
    /\ UNCHANGED <<storeVars, workdir, mode, max_restarts, steps, attempt,
                   pbar_start, fit_step, cur_step, train_state, broke, n_nan,
                   n_rollbacks, ret>>
    /\ UNCHANGED <<eq_step_parity, n_close, n_ewm, n_rows>>

\* One step of the equilibration loop that does not end it: the body only
\* sets the postfix of the progress bar.
EquilibrateStep ==
    /\ pc = "equilibrate"
    /\ UNCHANGED <<idxVars, samplingVars>>
    /\ eq_step_parity' = 1 - eq_step_parity
    /\ UNCHANGED <<storeVars, pc, workdir, mode, max_restarts, steps, attempt,
                   pbar_start, fit_step, cur_step, train_state, broke, n_nan,
                   n_rollbacks, outcome, ret>>
    /\ UNCHANGED <<n_close, n_ewm, n_rows>>

\* The equilibration loop ends (or raises); then
\* pbar = tqdm(range(steps)) and train_state = params, None, smpl_state.
Equilibrate ==
    /\ pc = "equilibrate"
    /\ UNCHANGED <<idxVars, samplingVars>>
    /\ \/ /\ pc' = "outer"
          /\ pbar_start' = 0
          /\ train_state' = MkState(0, FALSE)
          /\ UNCHANGED outcome
       \/ /\ Raise("Exception")
          /\ UNCHANGED <<pbar_start, train_state>>
    /\ UNCHANGED <<storeVars, workdir, mode, max_restarts, steps, attempt,
                   fit_step, cur_step, broke, n_nan, n_rollbacks, ret>>
    /\ UNCHANGED <<eq_step_parity, n_close, n_ewm, n_rows>>

OuterLoopUnbounded ==
    /\ pc = "outer"
    /\ UNCHANGED <<idxVars, samplingVars>>
    /\ attempt' = attempt + 1
    /\ fit_step' = FitWfFirst(pbar_start)
    /\ broke' = FALSE
    /\ pc' = "fit"
    /\ UNCHANGED <<storeVars, workdir, mode, max_restarts, steps, pbar_start,
                   cur_step, train_state, n_nan, n_rollbacks, outcome, ret>>
    /\ UNCHANGED <<eq_step_parity, n_close, n_ewm, n_rows>>

\* for _ in range(max_restarts): the next iteration calls fit_wf with the
\* current pbar and train_state; an exhausted range falls out of the try
\* block, and train returns None.
OuterLoop ==
    /\ pc = "outer"
    /\ UNCHANGED <<idxVars, samplingVars>>
    /\ IF attempt < max_restarts
       THEN /\ attempt' = attempt + 1
            /\ fit_step' = FitWfFirst(pbar_start)
            /\ broke' = FALSE
            /\ pc' = "fit"
            /\ UNCHANGED outcome
       ELSE /\ outcome' = "returned_none"
            /\ pc' = "finally"
            /\ UNCHANGED <<attempt, fit_step, broke>>
    /\ UNCHANGED <<storeVars, workdir, mode, max_restarts, steps, pbar_start,
                   cur_step, train_state, n_nan, n_rollbacks, ret>>
    /\ UNCHANGED <<eq_step_parity, n_close, n_ewm, n_rows>>

DivergedNever(state) == FALSE

\* jnp.isnan(train_state.sampler['psi'].log).any()
Diverged(state) == state.nan

\* fit_wf yields (step, train_state, E_loc, stats) for the next step of pbar,
\* and the loop body runs: on a NaN control is in the branch, before anything
\* else; otherwise ewm is updated, and with a workdir, in train mode
\* chkpts.update(stats['E_loc/std'], train_state), then the table rows and
\* the metrics are written (or writing them raises).
FitStep ==
    /\ pc = "fit"
    /\ UNCHANGED <<idxVars, samplingVars>>
    /\ FitWfHasNext(fit_step, steps)
    /\ \E nan \in BOOLEAN, loss \in Losses, written \in BOOLEAN :
        LET new == MkState(fit_step + 1, nan)
        IN  /\ cur_step' = fit_step
            /\ train_state' = new
            /\ fit_step' = fit_step + 1
            /\ IF Diverged(new)
               THEN /\ written
                    /\ pc' = "nan"
                    /\ n_nan' = n_nan + 1
                    /\ UNCHANGED <<storeVars, n_ewm, n_rows, outcome>>
               ELSE /\ UNCHANGED n_nan
                    /\ n_ewm' = n_ewm + 1
                    /\ IF workdir /\ mode = "train"
                       THEN StoreUpdate(loss, new)
                       ELSE UNCHANGED storeVars
                    /\ IF workdir
                       THEN IF written
                            THEN /\ n_rows' = n_rows + 1
                                 /\ pc' = "fit"
                                 /\ UNCHANGED outcome
                            ELSE /\ Raise("Exception")
                                 /\ UNCHANGED n_rows
                       ELSE /\ written
                            /\ pc' = "fit"
                            /\ UNCHANGED <<n_rows, outcome>>
    /\ UNCHANGED <<workdir, mode, max_restarts, steps, attempt, pbar_start,
                   broke, n_rollbacks, ret>>
    /\ UNCHANGED <<eq_step_parity, n_close>>

\* fit_wf raises in a step.
FitRaise ==
    /\ pc = "fit"
    /\ UNCHANGED <<idxVars, samplingVars>>
    /\ FitWfHasNext(fit_step, steps)
    /\ Raise("Exception")
    /\ UNCHANGED <<storeVars, workdir, mode, max_restarts, steps, attempt,
                   pbar_start, fit_step, cur_step, train_state, broke, n_nan,
                   n_rollbacks, ret>>
    /\ UNCHANGED <<eq_step_parity, n_close, n_ewm, n_rows>>

\* pbar is exhausted: the for loop over fit_wf ends.
FitExhausted ==
    /\ pc = "fit"
    /\ UNCHANGED <<idxVars, samplingVars>>
    /\ ~FitWfHasNext(fit_step, steps)
    /\ pc' = "after_fit"
    /\ UNCHANGED <<storeVars, workdir, mode, max_restarts, steps, attempt,
                   pbar_start, fit_step, cur_step, train_state, broke, n_nan,
                   n_rollbacks, outcome, ret>>
    /\ UNCHANGED <<eq_step_parity, n_close, n_ewm, n_rows>>

\* The NaN branch: step, train_state = chkpts.last; a new pbar over
\* range(step, steps); break.  Without a workdir chkpts is unbound
\* (UnboundLocalError, a NameError); with no retained checkpoint
\* chkpts[-1] raises IndexError.
Rollback ==
    /\ pc = "nan"
    /\ UNCHANGED <<idxVars, samplingVars>>
    /\ IF ~workdir
       THEN /\ Raise("NameError")
            /\ UNCHANGED <<cur_step, train_state, pbar_start, broke, n_rollbacks>>
       ELSE IF chkpts = <<>>
       THEN /\ Raise("IndexError")
            /\ UNCHANGED <<cur_step, train_state, pbar_start, broke, n_rollbacks>>
       ELSE IF Last(chkpts).path \notin DOMAIN files
       THEN /\ Raise("FileNotFoundError")
            /\ UNCHANGED <<cur_step, train_state, pbar_start, broke, n_rollbacks>>
       ELSE LET last == StoreLast(chkpts, files)
            IN  /\ cur_step' = last.step
                /\ train_state' = last.state
                /\ pbar_start' = last.step
                /\ broke' = TRUE
                /\ n_rollbacks' = n_rollbacks + 1
                /\ pc' = "after_fit"
                /\ UNCHANGED outcome
    /\ UNCHANGED <<storeVars, workdir, mode, max_restarts, steps, attempt,
                   fit_step, n_nan, ret>>
    /\ UNCHANGED <<eq_step_parity, n_close, n_ewm, n_rows>>

\* The statement after the inner for loop, inside the outer one:
\* return train_state.
Return ==
    /\ pc = "after_fit"
    /\ UNCHANGED <<idxVars, samplingVars>>
    /\ outcome' = "returned"
    /\ ret' = train_state
    /\ pc' = "finally"
    /\ UNCHANGED <<storeVars, workdir, mode, max_restarts, steps, attempt,
                   pbar_start, fit_step, cur_step, train_state, broke, n_nan,
                   n_rollbacks>>
    /\ UNCHANGED <<eq_step_parity, n_close, n_ewm, n_rows>>

FinallyNoClose ==
    /\ pc = "finally"
    /\ UNCHANGED <<idxVars, samplingVars>>
    /\ UNCHANGED <<storeVars, n_close>>
    /\ pc' = "done"
    /\ UNCHANGED <<workdir, mode, max_restarts, steps, attempt, pbar_start,
                   fit_step, cur_step, train_state, broke, n_nan, n_rollbacks,
                   outcome, ret>>
    /\ UNCHANGED <<eq_step_parity, n_ewm, n_rows>>

\* finally: with a workdir, chkpts.close() (and the writer and the file).
Finally ==
    /\ pc = "finally"
    /\ UNCHANGED <<idxVars, samplingVars>>
    /\ IF workdir
       THEN /\ StoreClose
            /\ n_close' = n_close + 1
       ELSE UNCHANGED <<storeVars, n_close>>
    /\ pc' = "done"
    /\ UNCHANGED <<workdir, mode, max_restarts, steps, attempt, pbar_start,
                   fit_step, cur_step, train_state, broke, n_nan, n_rollbacks,
                   outcome, ret>>
    /\ UNCHANGED <<eq_step_parity, n_ewm, n_rows>>

NextTrain ==
    \/ Setup
    \/ InitFit
    \/ EquilibrateStep
    \/ Equilibrate
    \/ OuterLoop
    \/ FitStep
    \/ FitRaise
    \/ FitExhausted
    \/ Rollback
    \/ Return
    \/ Finally

SpecTrain == InitTrain /\ [][NextTrain]_vars

\* One thread runs train: while a step is possible, a step is taken.
SpecTrainFair == SpecTrain /\ WF_vars(NextTrain)


\* ------------------------------------------------------ MoleculeIdxSampler
Min(a, b) == IF a < b THEN a ELSE b

\* jnp.arange(n), as a sequence
Arange(n) == [i \in 1..n |-> i - 1]

\* jax.random.split(key): two new keys, a function of the key.
Split(key) == [next |-> 2 * key + 1, sub |-> 2 * key + 2]

RemoveAt(seq, i) == SubSeq(seq, 1, i - 1) \o SubSeq(seq, i + 1, Len(seq))

\* jax.random.permutation(key, items): a permutation of items that is a
\* function of the key (here: the key read as a Lehmer code).
RECURSIVE Permutation(_, _)
Permutation(key, items) ==
    IF items = <<>>
    THEN <<>>
    ELSE LET i == (key % Len(items)) + 1
         IN  <<items[i]>> \o Permutation(key \div Len(items), RemoveAt(items, i))

\* new_permutation: the permutation it returns and self.rng after it.
NewPermutation(key, n, shf) ==
    IF shf = "False"
    THEN [perm |-> Arange(n), rng |-> key]
    ELSE LET sp == Split(key)
         IN  [perm |-> Permutation(sp.sub, Arange(n)),
              rng |-> IF shf = "always" THEN sp.next ELSE key]

\* self.permutation[range(self.state, min(self.state + self.batch_size, self.n_mols))]
FirstBlock(perm, pos, b, n) ==
    [i \in 1..(Min(pos + b, n) - pos) |-> perm[pos + i]]

\* self.permutation[range(k)] of the new permutation
LeftoverFromEnd(perm, k) == [i \in 1..k |-> perm[Len(perm) - k + i]]

Leftover(perm, k) == [i \in 1..k |-> perm[i]]

\* self.state = (self.state + self.batch_size) % self.n_mols
AdvanceNoWrap(pos, b, n) == pos + b

Advance(pos, b, n) == (pos + b) % n

\* replicate_on_devices(value): one copy of value per device
ReplicateOnDevices(value) == [d \in 1..NDevices |-> value]

\* MoleculeIdxSampler.__init__
InitIdx ==
    /\ n_mols \in 1..MaxMols
    /\ batch_size \in 1..n_mols
    /\ shuffle \in {"False", "once", "always"}
    /\ idx_state = 0
    /\ \E key \in 0..MaxKey :
        LET np == NewPermutation(key, n_mols, shuffle)
        IN  /\ permutation = np.perm
            /\ rng = np.rng
    /\ returned = <<>>
    /\ hist = <<>>
    /\ size = 1
    /\ min_interval = 1
    /\ StoreInit
    /\ TrainIdle
    /\ SamplingIdle

\* MoleculeIdxSampler.sample
Sample ==
    /\ Len(hist) < MaxCalls
    /\ LET first == FirstBlock(permutation, idx_state, batch_size, n_mols)
           short == Len(first) < batch_size
           np == NewPermutation(rng, n_mols, shuffle)
           value == IF short
                    THEN first \o Leftover(np.perm, batch_size - Len(first))
                    ELSE first
       IN  /\ permutation' = IF short THEN np.perm ELSE permutation
           /\ rng' = IF short THEN np.rng ELSE rng
           /\ idx_state' = Advance(idx_state, batch_size, n_mols)
           /\ returned' = ReplicateOnDevices(value)
           /\ hist' = Append(hist, [pos |-> idx_state, value |-> value])
    /\ UNCHANGED <<n_mols, batch_size, shuffle, storeVars, trainVars, samplingVars>>

NextIdx == Sample

SpecIdx == InitIdx /\ [][NextIdx]_vars

\* ------------------------------------------------------- claims: the store
\* float comparison a <= threshold * b
LeqThreshold(a, b) ==
    /\ ~IsNaN(a)
    /\ ~IsNaN(b)
    /\ a * ThresholdDen <= ThresholdNum * b

\* The update that just ran persisted its state: a new last entry for the
\* current step, and its file holding the state.
Persisted ==
    /\ chkpts' # <<>>
    /\ Last(chkpts') = [step |-> step', loss |-> arg_loss', path |-> PathOf(step')]
    /\ PathOf(step') \in DOMAIN files'
    /\ files'[PathOf(step')] = arg_state'

\* The update that just ran only buffered.
OnlyBuffered == chkpts' = chkpts /\ files' = files

\* C1 as stated: update persists iff, after the increment, step >=
\* min_interval and (no checkpoint is retained, or step - last.step >=
\* min_interval and loss <= threshold * last.loss); otherwise it only
\* increments step and replaces the buffer.
C1_GateAsStated ==
    [][op' = "update" =>
        /\ step' = step + 1
        /\ buffer' = arg_state'
        /\ IF /\ step' >= min_interval
              /\ \/ chkpts = <<>>
                 \/ /\ step' - Last(chkpts).step >= min_interval
                    /\ LeqThreshold(arg_loss', Last(chkpts).loss)
           THEN Persisted
           ELSE OnlyBuffered]_vars

\* C1 amended: as C1, with the loss condition read as "not (loss >
\* threshold * last.loss)": it is met when loss <= threshold * last.loss and
\* also when loss or last.loss is NaN.
C1_Gate ==
    [][op' = "update" =>
        /\ step' = step + 1
        /\ buffer' = arg_state'
        /\ IF /\ step' >= min_interval
              /\ \/ chkpts = <<>>
                 \/ /\ step' - Last(chkpts).step >= min_interval
                    /\ \/ IsNaN(arg_loss')
                       \/ IsNaN(Last(chkpts).loss)
                       \/ arg_loss' * ThresholdDen
                              <= ThresholdNum * Last(chkpts).loss
           THEN Persisted
           ELSE OnlyBuffered]_vars

\* C1 witness: an update persisted a finite loss against a retained
\* checkpoint with a finite loss.
C1_Witness ==
    /\ op = "update"
    /\ Len(chkpts) >= 2
    /\ Last(chkpts).step = step
    /\ ~IsNaN(arg_loss)
    /\ ~IsNaN(chkpts[Len(chkpts) - 1].loss)

RetainedPaths == {chkpts[i].path : i \in 1..Len(chkpts)}

IsSuffix(s, t) == \E k \in 0..Len(t) : s = SubSeq(t, k + 1, Len(t))

\* C2: before close, after any updates: at most size checkpoints are
\* retained, their steps strictly increase, the checkpoint files are exactly
\* those of the retained entries, and an update drops only oldest entries.
C2_Retention ==
    /\ [](~closed =>
            /\ Len(chkpts) <= size
            /\ \A i \in 1..Len(chkpts) - 1 : chkpts[i].step < chkpts[i + 1].step
            /\ DOMAIN files = RetainedPaths)
    /\ [][~closed' =>
            \/ IsSuffix(chkpts', chkpts)
            \/ IsSuffix(chkpts', Append(chkpts,
                   [step |-> step', loss |-> arg_loss', path |-> PathOf(step')]))]_vars

\* C2 witness: the store is full and its first checkpoint, taken at step
\* min_interval, has been evicted.
C2_Witness ==
    /\ ~closed
    /\ Len(chkpts) = size
    /\ chkpts[1].step > min_interval
    /\ PathOf(min_interval) \notin DOMAIN files

\* C3: right after close(), if update was ever called the file named for the
\* current step holds the state of the most recent update; if it never was,
\* no file has been written.
C3_CloseKeepsLast ==
    op = "close" =>
        IF step = 0
        THEN DOMAIN files = {}
        ELSE /\ PathOf(step) \in DOMAIN files
             /\ files[PathOf(step)] = arg_state

\* C3 witness: close() ran after updates none of which passed the gate.
C3_Witness ==
    /\ op = "close"
    /\ step > 0
    /\ chkpts = <<>>
    /\ PathOf(step) \in DOMAIN files

\* ------------------------------------------------------- claims: train
\* C4 as stated: after a NaN at step k the in-memory state is that of the
\* last persisted checkpoint, the step counter is the checkpoint's step, and
\* the run goes on to execute that step: while an attempt is left it does not
\* end with the rollback as the last thing the fit loop did.
C4_RollbackResumes ==
    broke =>
        /\ train_state = StoreLast(chkpts, files).state
        /\ cur_step = Last(chkpts).step
        /\ pbar_start = Last(chkpts).step
        /\ n_rollbacks < max_restarts => pc \notin {"finally", "done"}

\* C5 as stated: when train returns a state while restart attempts remain,
\* every rollback was followed by a new fit loop, and the last fit loop ran
\* to completion without a divergence.
C5_ReentersFit ==
    (outcome = "returned" /\ n_rollbacks < max_restarts) =>
        /\ attempt = n_rollbacks + 1
        /\ ~broke

\* C6 as stated: a run that saw max_restarts or more NaN detections ends by
\* raising to its caller (any exception is counted as the report here); it
\* does not return a state or None.
C6_ExhaustedRaises ==
    (pc = "done" /\ n_nan > 0 /\ n_nan >= max_restarts) =>
        outcome \notin {"returned", "returned_none", "running"}

\* C7 as stated: whenever a NaN is detected while restart attempts remain, a
\* store exists and holds a persisted checkpoint for chkpts.last to load.
C7_CheckpointAvailable ==
    (pc = "nan" /\ n_nan < max_restarts) =>
        /\ workdir
        /\ chkpts # <<>>
        /\ Last(chkpts).path \in DOMAIN files

\* ------------------------------------------- claims: MoleculeIdxSampler
\* The step is a sample call.
IsSample == Len(hist') = Len(hist) + 1

\* C8: every sample call returns exactly batch_size indices (on every
\* device), each in 0..n_mols-1: the entries of the permutation from the
\* position on and, past its end, the first entries of the permutation in
\* use after the call; the position advances to (position + batch_size) mod
\* n_mols.
C8_SampleBlock ==
    [][IsSample =>
        /\ DOMAIN returned' = 1..NDevices
        /\ \A d \in DOMAIN returned' :
            /\ Len(returned'[d]) = batch_size
            /\ \A i \in 1..batch_size :
                /\ returned'[d][i] \in 0..(n_mols - 1)
                /\ returned'[d][i] =
                       IF idx_state + i <= n_mols
                       THEN permutation[idx_state + i]
                       ELSE permutation'[idx_state + i - n_mols]
        /\ idx_state' = (idx_state + batch_size) % n_mols]_vars

\* C8 witness: a reshuffling sampler returned a block that ran past the end
\* of its permutation.
C8_Witness ==
    /\ hist # <<>>
    /\ shuffle = "always"
    /\ Last(hist).pos + batch_size > n_mols
    /\ returned # <<>>

Ceil(n, b) == (n + b - 1) \div b

\* How often index g is returned by calls i..i+c-1.
RECURSIVE Count(_, _, _)
Count(g, i, c) ==
    IF c = 0
    THEN 0
    ELSE Cardinality({k \in 1..Len(hist[i].value) : hist[i].value[k] = g})
             + Count(g, i + 1, c - 1)

\* The calls that start at position 0 and are followed by a full cycle.
CycleStarts ==
    {i \in 1..Len(hist) :
        /\ hist[i].pos = 0
        /\ i + Ceil(n_mols, batch_size) - 1 <= Len(hist)}

\* C9 as stated: without shuffling, ceil(n_mols/batch_size) consecutive calls
\* from position 0 return every geometry index exactly once.
C9_ExactlyOnce ==
    shuffle = "False" =>
        \A i \in CycleStarts : \A g \in 0..(n_mols - 1) :
            Count(g, i, Ceil(n_mols, batch_size)) = 1

\* C9 amended: such a cycle returns every geometry index at least once:
\* exactly once when batch_size divides n_mols, and otherwise the first
\* ceil(n_mols/batch_size) * batch_size - n_mols indices twice and the others
\* once.
C9_FullCycle ==
    shuffle = "False" =>
        \A i \in CycleStarts : \A g \in 0..(n_mols - 1) :
            Count(g, i, Ceil(n_mols, batch_size)) =
                IF g < Ceil(n_mols, batch_size) * batch_size - n_mols
                THEN 2
                ELSE 1

\* C9 witness: an unshuffled sampler whose batch size does not divide n_mols
\* completed a cycle that started at position 0 after the first call.
C9_Witness ==
    /\ shuffle = "False"
    /\ n_mols % batch_size # 0
    /\ \E i \in CycleStarts : i > 1

\* C10 as stated: with shuffle = 'always' every sample call that completes a
\* pass over the n_mols positions draws a new permutation, advancing self.rng
\* (stated here for n_mols > 1); with shuffle = 'once' no call changes the
\* permutation.
C10_ReshuffleEveryPass ==
    [][IsSample =>
        /\ (shuffle = "always" /\ n_mols > 1
                /\ idx_state + batch_size >= n_mols)
            => /\ rng' # rng
               /\ permutation' = Permutation(Split(rng).sub, Arange(n_mols))
        /\ shuffle = "once" => permutation' = permutation]_vars



\* C17 as stated: every run of train terminates, given that each fit loop
\* yields finitely many steps.
C17_TerminatesAsStated == <>(pc = "done")

\* C17 amended: a run either stays in the equilibration loop for ever or
\* ends; at most max_restarts fit loops are started, and at most that many
\* checkpoints are reloaded.
C17_BoundedRestarts ==
    /\ [](/\ attempt <= max_restarts
          /\ n_rollbacks <= attempt)
    /\ (<>[](pc = "equilibrate") \/ <>(pc = "done"))

\* C17 witness: a run that used all of its restart attempts, reloaded a
\* checkpoint and ended.
C17_Witness ==
    /\ pc = "done"
    /\ max_restarts > 0
    /\ attempt = max_restarts
    /\ n_rollbacks > 0

C19_NoDivergedPersisted ==
    /\ [](/\ \A q \in DOMAIN files : ~files[q].nan
          /\ ~buffer.nan
          /\ ~arg_state.nan)
    /\ [][(pc = "fit" /\ pc' = "nan")
            => UNCHANGED <<storeVars, n_ewm, n_rows>>]_vars

\* C19 witness: a NaN was found after states had been persisted, and the
\* store was closed after it.
C19_Witness ==
    /\ pc = "done"
    /\ n_nan > 0
    /\ closed
    /\ chkpts # <<>>
    /\ buffer # None


\* ------------------------------------------------------------- equilibrate
\* seq[start:] of Python, for any integer start
SliceFrom(seq, start) ==
    LET n == Len(seq)
        from == IF start < 0
                THEN (IF n + start < 0 THEN 0 ELSE n + start)
                ELSE Min(start, n)
    IN  SubSeq(seq, from + 1, n)

\* seq[:stop] of Python, for stop >= 0
SliceTo(seq, stop) == SubSeq(seq, 1, Min(stop, Len(seq)))

BufferPushKeepAll(buf, buffer_size, x) == Append(buf, x)

\* buffer = [*buffer[-buffer_size + 1 :], criterion(phys_conf).item()]
BufferPush(buf, buffer_size, x) == Append(SliceFrom(buf, 1 - buffer_size), x)

RECURSIVE SumOf(_)
SumOf(b) == IF b = <<>> THEN 0 ELSE Head(b) + SumOf(Tail(b))

\* Len(b)^2 times the sum of the squared deviations from mean(b)
Dev2(b) ==
    LET k == Len(b)
        t == SumOf(b)
    IN  SumOf([i \in 1..k |-> (k * b[i] - t) * (k * b[i] - t)])

\* statistics.stdev raises StatisticsError on fewer than two values.
StdevDefined(b) == Len(b) >= 2

\* abs(mean(b1) - mean(b2)) < min(stdev(b1), stdev(b2)), for two blocks of
\* k >= 2 values: with t = sum and D = Dev2, mean = t / k and
\* stdev = sqrt(D / (k * k * (k - 1))), so the test is
\* (t1 - t2)^2 * (k - 1) < min(D1, D2).
Converged(b1, b2) ==
    LET k == Len(b1)
        d == SumOf(b1) - SumOf(b2)
    IN  d * d * (k - 1) < Min(Dev2(b1), Dev2(b2))

\* buffer_size = block_size * n_blocks
BufferSize == eq_block_size * eq_n_blocks

\* equilibrate(...) is called: a generator that has not run yet.
InitEq ==
    /\ eq_block_size \in 1..MaxBlockSize
    /\ eq_n_blocks \in 1..MaxNBlocks
    /\ eq_steps \in 0..MaxEqSteps
    /\ eq_buffer = <<>>
    /\ eq_state = 0
    /\ eq_yielded = <<>>
    /\ eq_pc = "loop"
    /\ eq_end = "none"
    /\ size = 1
    /\ min_interval = 1
    /\ StoreInit
    /\ TrainIdle
    /\ IdxIdle
    /\ MgIdle
    /\ SmIdle

\* The for statement takes the next step, sample_wf advances the state, and
\* the state is yielded; or steps is exhausted and the generator returns.
EqStep ==
    /\ eq_pc = "loop"
    /\ IF eq_steps = 0
       THEN /\ eq_pc' = "done"
            /\ eq_end' = "exhausted"
            /\ UNCHANGED <<eq_steps, eq_state, eq_yielded>>
       ELSE /\ eq_steps' = eq_steps - 1
            /\ eq_state' = eq_state + 1
            /\ eq_yielded' = Append(eq_yielded, eq_state + 1)
            /\ eq_pc' = "yielded"
            /\ UNCHANGED eq_end
    /\ UNCHANGED <<eq_block_size, eq_n_blocks, eq_buffer>>
    /\ UNCHANGED <<storeVars, trainVars, idxVars, mgVars, smVars>>

\* The consumer resumes the generator: the criterion of the step goes into
\* the buffer, and on a full buffer the first and the last block are compared.
EqResume ==
    /\ eq_pc = "yielded"
    /\ \E x \in 0..MaxCrit :
        LET buffer_size == BufferSize
            buf == BufferPush(eq_buffer, buffer_size, x)
            b1 == SliceTo(buf, eq_block_size)
            b2 == SliceFrom(buf, 0 - eq_block_size)
        IN  /\ eq_buffer' = buf
            /\ IF Len(buf) < buffer_size
               THEN /\ eq_pc' = "loop"
                    /\ UNCHANGED eq_end
               ELSE IF ~(StdevDefined(b1) /\ StdevDefined(b2))
               THEN /\ eq_pc' = "done"
                    /\ eq_end' = "StatisticsError"
               ELSE IF Converged(b1, b2)
               THEN /\ eq_pc' = "done"
                    /\ eq_end' = "break"
               ELSE /\ eq_pc' = "loop"
                    /\ UNCHANGED eq_end
    /\ UNCHANGED <<eq_block_size, eq_n_blocks, eq_steps, eq_state, eq_yielded>>
    /\ UNCHANGED <<storeVars, trainVars, idxVars, mgVars, smVars>>

NextEq == EqStep \/ EqResume

SpecEq == InitEq /\ [][NextEq]_vars

\* ------------------------------------------------- claims: equilibrate
\* C16 as stated (its last part): the loop ends only by the break of the
\* convergence test or because the step iterator is exhausted.
C16_EndsAsStated ==
    eq_pc = "done" => eq_end \in {"break", "exhausted"}

\* The convergence test as the claim words it, on blocks of k >= 2 values:
\* the squared difference of the means is below both variances.
C16_Test(b1, b2) ==
    LET k == Len(b1)
        d == SumOf(b1) - SumOf(b2)
    IN  /\ d * d * (k - 1) < Dev2(b1)
        /\ d * d * (k - 1) < Dev2(b2)

\* C16 amended: every step performed is yielded, the stopping one included;
\* the loop does not break before block_size * n_blocks states were yielded;
\* with block_size * n_blocks >= 2 the buffer holds at most that many values;
\* with block_size >= 2, a resumed loop breaks exactly when the buffer is
\* full and the test holds on its first and last block_size values, and
\* ends otherwise only on exhaustion; with block_size = 1 it ends with a
\* StatisticsError at the first step that fills the buffer.
C16_Equilibrate ==
    /\ [](eq_pc # "idle" =>
          /\ eq_yielded = [i \in 1..eq_state |-> i]
          /\ eq_end = "break" => Len(eq_yielded) >= BufferSize
          /\ BufferSize >= 2 => Len(eq_buffer) <= BufferSize
          /\ eq_block_size >= 2 => eq_end \in {"none", "break", "exhausted"}
          /\ eq_end = "exhausted" => eq_steps = 0
          /\ eq_end = "StatisticsError" =>
                /\ eq_block_size = 1
                /\ Len(eq_yielded) = BufferSize)
    /\ [][(eq_pc = "yielded" /\ eq_block_size >= 2) =>
            LET full == Len(eq_buffer') >= BufferSize
                b1 == SubSeq(eq_buffer', 1, eq_block_size)
                b2 == SubSeq(eq_buffer', Len(eq_buffer') - eq_block_size + 1,
                             Len(eq_buffer'))
            IN  /\ eq_end' = "break" <=> (full /\ C16_Test(b1, b2))
                /\ eq_end' # "break" => eq_pc' = "loop"]_vars

\* C16 witness: with more than one block, the loop went on past a full
\* buffer whose test failed and broke at a later step.
C16_Witness ==
    /\ eq_end = "break"
    /\ eq_n_blocks > 1
    /\ Len(eq_yielded) > eq_block_size * eq_n_blocks


\* --------------------------------------------- MultiNuclearGeometrySampler
\* The wave function at electron positions r for nuclear geometry g: what
\* self.sampler stores in the psi leaf of the state it returns.
WfAt(g, r) == g * (MaxPos + 1) + r

\* self.sampler.sample(rng, state, params, R) for the geometry g: one more
\* step, the walkers at some r (the rng decides where), psi computed there.
InnerSample(s, g, r) == [r |-> r, psi |-> WfAt(g, r), n |-> s.n + 1]

Range(f) == {f[i] : i \in DOMAIN f}

\* x.at[mol_idxs].set(y): the update that lands at an index that occurs more
\* than once in mol_idxs is whichever is applied last, in an order that the
\* implementation leaves open.
Winners(idxs) ==
    {w \in [Range(idxs) -> DOMAIN idxs] : \A g \in Range(idxs) : idxs[w[g]] = g}

Scatter(x, idxs, y, w) ==
    [g \in DOMAIN x |-> IF g \in Range(idxs) THEN y[w[g]] ELSE x[g]]

\* MultiNuclearGeometrySampler.init: the inner sampler's init for every
\* geometry.
InitMg ==
    /\ mg_n \in 1..MaxGeoms
    /\ \E r \in [0..(mg_n - 1) -> 0..MaxPos] :
        mg_state = [g \in 0..(mg_n - 1) |->
                        [r |-> r[g], psi |-> WfAt(g, r[g]), n |-> 0]]
    /\ mg_mol_idxs = <<>>
    /\ mg_sampled = <<>>
    /\ mg_calls = 0
    /\ size = 1
    /\ min_interval = 1
    /\ StoreInit
    /\ TrainIdle
    /\ IdxIdle
    /\ EqIdle
    /\ SmIdle

\* MultiNuclearGeometrySampler.sample(rng, state, params, mol_idxs): gather
\* the states of the selected geometries, advance each with its own
\* geometry, and scatter the results back, leaf by leaf.
MgSample ==
    /\ mg_calls < MaxMgCalls
    /\ \E k \in 1..mg_n :
       \E idxs \in [1..k -> 0..(mg_n - 1)], r \in [1..k -> 0..MaxPos] :
        LET states_to_sample == [j \in 1..k |-> mg_state[idxs[j]]]
            sampled_states ==
                [j \in 1..k |-> InnerSample(states_to_sample[j], idxs[j], r[j])]
            leaf_r(st) == [g \in DOMAIN st |-> st[g].r]
            leaf_psi(st) == [g \in DOMAIN st |-> st[g].psi]
            leaf_n(st) == [g \in DOMAIN st |-> st[g].n]
        IN  \E wr, wpsi, wn \in Winners(idxs) :
            LET new_r == Scatter(leaf_r(mg_state), idxs, leaf_r(sampled_states), wr)
                new_psi == Scatter(leaf_psi(mg_state), idxs,
                                   leaf_psi(sampled_states), wpsi)
                new_n == Scatter(leaf_n(mg_state), idxs, leaf_n(sampled_states), wn)
            IN  /\ mg_state' = [g \in DOMAIN mg_state |->
                                  [r |-> new_r[g], psi |-> new_psi[g], n |-> new_n[g]]]
                /\ mg_mol_idxs' = idxs
                /\ mg_sampled' = sampled_states
    /\ mg_calls' = mg_calls + 1
    /\ UNCHANGED mg_n
    /\ UNCHANGED <<storeVars, trainVars, idxVars, eqVars, smVars>>

NextMg == MgSample

SpecMg == InitMg /\ [][NextMg]_vars

\* ------------------------------- claims: MultiNuclearGeometrySampler
\* C14 as stated: a sample call changes the stored state only at the indices
\* in mol_idxs, and at every selected index the stored state is one that
\* the call produced by advancing that geometry's own previous state.
C14_ScatterAsStated ==
    [][mg_calls' = mg_calls + 1 =>
        \A g \in DOMAIN mg_state :
            IF g \in Range(mg_mol_idxs')
            THEN \E j \in DOMAIN mg_mol_idxs' :
                    /\ mg_mol_idxs'[j] = g
                    /\ mg_state'[g] = mg_sampled'[j]
                    /\ mg_state'[g].n = mg_state[g].n + 1
                    /\ mg_state'[g].psi = WfAt(g, mg_state'[g].r)
            ELSE mg_state'[g] = mg_state[g]]_vars


\* ------------------------------------------------- chain and the samplers
\* The sampler classes: "D" DecorrSampler, "R" ResampledSampler,
\* "M" MetropolisSampler; "S" is the base class Sampler.
Compositions ==
    {<<"M">>, <<"D">>, <<"R">>,
     <<"D", "M">>, <<"R", "M">>, <<"M", "D">>,
     <<"R", "D", "M">>}

\* The method resolution order of type(name, bases, ...): the bases in
\* order, then their common base class.
Mro(bases) == bases \o <<"S">>

RepeatOnce(seq, n) == seq

\* seq repeated n times
RECURSIVE Repeat(_, _)
Repeat(seq, n) == IF n <= 0 THEN <<>> ELSE seq \o Repeat(seq, n - 1)

\* What self.sample(...) runs, from the class at position i of the method
\* resolution order on: MetropolisSampler.sample is one step of the mover
\* ("M"); ResampledSampler.sample calls super().sample and then decides on
\* resampling ("R"); DecorrSampler.sample scans super().sample length times,
\* stacking the stats of each call ("push"), and keeps the last stats
\* ("last"); Sampler.sample raises ("raise").
RECURSIVE SamplePlan(_, _, _)
SamplePlan(mro, i, length) ==
    CASE mro[i] = "M" -> <<"M">>
      [] mro[i] = "R" -> SamplePlan(mro, i + 1, length) \o <<"R">>
      [] mro[i] = "D" ->
            Repeat(SamplePlan(mro, i + 1, length) \o <<"push">>, length)
                \o <<"last">>
      [] OTHER -> <<"raise">>

\* What self.init(...) resolves to: DecorrSampler defines no init;
\* ResampledSampler.init calls super().init and adds step and log_weight;
\* MetropolisSampler.init makes the walkers; Sampler.init(self, rng, wf, n)
\* does not take the four arguments of the call.
RECURSIVE InitPlan(_, _)
InitPlan(mro, i) ==
    CASE mro[i] = "M" -> <<"M">>
      [] mro[i] = "R" -> InitPlan(mro, i + 1) \o <<"R">>
      [] mro[i] = "D" -> InitPlan(mro, i + 1)
      [] OTHER -> <<"raise">>

\* What self.update(...) resolves to: the first of ResampledSampler.update
\* and MetropolisSampler.update in the method resolution order.
RECURSIVE UpdatePlan(_, _)
UpdatePlan(mro, i) ==
    CASE mro[i] = "M" -> "M"
      [] mro[i] = "R" -> "R"
      [] mro[i] = "D" -> UpdatePlan(mro, i + 1)
      [] OTHER -> "raise"

\* if x: for an optional number
Truthy(x) == x # NoneInt /\ x # 0

Walkers == 1..NWalkers
Positions == 0..MaxPos
Params == 0..MaxParam

WALKER_STATE == {"r", "psi", "age"}

\* self.wf(params, phys_conf).log, in units of ln 2: some function of the
\* parameters and the position.
LogPsi(p, r) == 0 - ((r * (p + 1)) % (MaxPos + 2))

\* split_dict(d, lambda k: k in keys)[0] and [1]
Restrict(d, keys) == [k \in (DOMAIN d) \cap keys |-> d[k]]
Without(d, keys) == [k \in (DOMAIN d) \ keys |-> d[k]]

\* _update: psi at the positions of the state
UpdatePsi(state, p) ==
    [psi |-> [i \in Walkers |-> LogPsi(p, state.r[i])]] @@ state

\* tau stands for initial_tau times the factors it was scaled by:
\* tau[k] counts the divisions by target_acceptance / max(k / n, 0.05).
InitialTau == [k \in 0..NWalkers |-> 0]
ScaleTau(tau, k) == [tau EXCEPT ![k] = @ + 1]

Zeros == [i \in Walkers |-> 0]

RECURSIVE CountTrue(_, _)
CountTrue(f, n) ==
    IF n = 0 THEN 0 ELSE CountTrue(f, n - 1) + (IF f[n] THEN 1 ELSE 0)

AcceptedNoMaxAge(log_prob_gt, age, max_age) == log_prob_gt

\* accepted = log_prob > log(uniform); if self.max_age: accepted |= age >= max_age
Accepted(log_prob_gt, age, max_age) ==
    [i \in Walkers |->
        \/ log_prob_gt[i]
        \/ Truthy(max_age) /\ age[i] >= max_age]

WhereTreePsiFromProp(accepted, prop, state) ==
    [k \in DOMAIN prop |->
        [i \in Walkers |-> IF accepted[i] \/ k = "psi" THEN prop[k][i] ELSE state[k][i]]]

\* tree_map(lambda xp, x: vmap(jnp.where)(accepted, xp, x), prop, state)
WhereTree(accepted, prop, state) ==
    [k \in DOMAIN prop |->
        [i \in Walkers |-> IF accepted[i] THEN prop[k][i] ELSE state[k][i]]]

MaxOf(f) == CHOOSE m \in Range(f) : \A x \in Range(f) : x <= m

\* MetropolisSampler.sample for the proposal prop_r and the outcomes gt of
\* log_prob > log(uniform): the new state, the stats, and the decisions.
MetropolisSample(state, p, prop_r, gt, max_age, target) ==
    LET prop0 == [r |-> prop_r, age |-> Zeros] @@ Without(state, WALKER_STATE)
        prop1 == UpdatePsi(prop0, p)
        accepted == Accepted(gt, state.age, max_age)
        acceptance == CountTrue(accepted, NWalkers)
        prop2 == IF target
                 THEN [prop1 EXCEPT !.tau = ScaleTau(@, acceptance)]
                 ELSE prop1
        state1 == [state EXCEPT !.age = [i \in Walkers |-> @[i] + 1]]
        new == WhereTree(accepted, Restrict(prop2, WALKER_STATE),
                         Restrict(state1, WALKER_STATE))
                   @@ Without(prop2, WALKER_STATE)
    IN  [state |-> new,
         stats |-> [acceptance |-> acceptance, tau |-> new.tau,
                    age_max |-> MaxOf(new.age)],
         prop |-> Restrict(prop2, WALKER_STATE),
         accepted |-> accepted]

\* The outcomes log_prob > log(uniform) can have: log(uniform) is below 0,
\* so a proposal with log_prob >= 0 always passes.
Outcomes(state, p, prop_r) ==
    {gt \in [Walkers -> BOOLEAN] :
        \A i \in Walkers :
            2 * (LogPsi(p, prop_r[i]) - state.psi[i]) >= 0 => gt[i]}

\* ResampledSampler.init: the state of super().init with step and
\* log_weight added.
ResampledInit(state) == [step |-> 0, log_weight |-> Zeros] @@ state

ResampledUpdateNoMax(state, p) ==
    LET lw1 == [i \in Walkers |-> state.log_weight[i] - 2 * state.psi[i]]
        state2 == UpdatePsi([state EXCEPT !.log_weight = lw1], p)
        lw2 == [i \in Walkers |-> lw1[i] + 2 * state2.psi[i]]
    IN  [state2 EXCEPT !.log_weight = lw2]

\* ResampledSampler.update
ResampledUpdate(state, p) ==
    LET lw1 == [i \in Walkers |-> state.log_weight[i] - 2 * state.psi[i]]
        state2 == UpdatePsi([state EXCEPT !.log_weight = lw1], p)
        lw2 == [i \in Walkers |-> lw1[i] + 2 * state2.psi[i]]
        lw3 == [i \in Walkers |-> lw2[i] - MaxOf(lw2)]
    IN  [state2 EXCEPT !.log_weight = lw3]

RECURSIVE Pow2(_)
Pow2(x) == IF x <= 0 THEN 1 ELSE 2 * Pow2(x - 1)

MinOf(f) == CHOOSE m \in Range(f) : \A x \in Range(f) : m <= x

\* weight = jnp.exp(state['log_weight']), with log_weight in units of ln 2,
\* times a common factor that makes the weights integers (the effective
\* sample size does not depend on it)
Weight(lw) == [i \in Walkers |-> Pow2(lw[i] - MinOf(lw))]

\* ess = jnp.sum(weight) ** 2 / jnp.sum(weight**2), as numerator and
\* denominator
EssNum(lw) == SumOf(Weight(lw)) * SumOf(Weight(lw))
EssDen(lw) == SumOf([i \in Walkers |-> Weight(lw)[i] * Weight(lw)[i]])

TriggerPastPeriod(stp, lw, period, treshold) ==
    \/ period # NoneInt /\ stp > period
    \/ treshold # NoneInt
        /\ EssNum(lw) * TresholdScale < treshold * NWalkers * EssDen(lw)

\* The predicate of lax.cond (treshold is given in units of 1 / TresholdScale)
Trigger(stp, lw, period, treshold) ==
    \/ period # NoneInt /\ stp >= period
    \/ treshold # NoneInt
        /\ EssNum(lw) * TresholdScale < treshold * NWalkers * EssDen(lw)

\* ResampledSampler.resample_walkers, for the indices idx that
\* multinomial_resampling drew
ResampleWalkers(state, idx) ==
    [step |-> 0, log_weight |-> Zeros]
        @@ Without(state, WALKER_STATE)
        @@ [k \in WALKER_STATE |-> [i \in Walkers |-> state[k][idx[i]]]]

\* The sampler arguments tried
Lengths == 1..MaxLength
Periods == {NoneInt} \cup (1..MaxPeriod)
Tresholds == {NoneInt, TresholdTried}
MaxAges == {NoneInt} \cup (1..MaxAge)

\* chain(*samplers): a class with the samplers' classes as bases is made
\* and instantiated, and the samplers' attributes are copied into it.
Chain ==
    /\ sm_pc = "none"
    /\ \E bases \in Compositions :
        /\ sm_bases' = bases
        /\ sm_length' \in (IF "D" \in Range(bases) THEN Lengths ELSE {NoneInt})
        /\ sm_period' \in (IF "R" \in Range(bases) THEN Periods ELSE {NoneInt})
        /\ sm_treshold' \in (IF "R" \in Range(bases) THEN Tresholds ELSE {NoneInt})
        \* assert period is not None or treshold is not None
        /\ "R" \in Range(bases) => (sm_period' # NoneInt \/ sm_treshold' # NoneInt)
        /\ sm_max_age' \in (IF "M" \in Range(bases) THEN MaxAges ELSE {NoneInt})
        /\ sm_target' \in (IF "M" \in Range(bases) THEN BOOLEAN ELSE {FALSE})
    /\ sm_pc' = "made"
    /\ UNCHANGED <<sm_params, sm_state, sm_err, sm_plan, sm_stats, sm_scan,
                   sm_ret, sm_mv, sm_n_mv, sm_re, sm_since, sm_ops>>
    /\ UNCHANGED <<storeVars, trainVars, idxVars, eqVars, mgVars>>

\* The first call on the chained sampler: self.init(rng, params, n, R).
SmInit ==
    /\ sm_pc = "made"
    /\ LET plan == InitPlan(Mro(sm_bases), 1)
       IN  IF Head(plan) = "raise"
           THEN /\ sm_pc' = "failed"
                /\ sm_err' = "TypeError"
                /\ UNCHANGED <<sm_params, sm_state>>
           ELSE /\ \E p \in Params, r \in [Walkers -> Positions] :
                    LET state == UpdatePsi([r |-> r, age |-> Zeros,
                                            tau |-> InitialTau], p)
                    IN  /\ sm_params' = p
                        /\ sm_state' = IF Len(plan) > 1
                                       THEN ResampledInit(state)
                                       ELSE state
                /\ sm_pc' = "ready"
                /\ UNCHANGED sm_err
    /\ UNCHANGED <<smConf, sm_plan, sm_stats, sm_scan, sm_ret, sm_mv,
                   sm_n_mv, sm_re, sm_since, sm_ops>>
    /\ UNCHANGED <<storeVars, trainVars, idxVars, eqVars, mgVars>>

\* self.update(state, params, R)
SmUpdate ==
    /\ sm_pc = "ready"
    /\ sm_ops < MaxSmOps
    /\ \E p \in Params :
        /\ sm_params' = p
        /\ sm_state' = IF UpdatePlan(Mro(sm_bases), 1) = "R"
                       THEN ResampledUpdate(sm_state, p)
                       ELSE UpdatePsi(sm_state, p)
    /\ sm_ops' = sm_ops + 1
    /\ UNCHANGED <<sm_pc, smConf, sm_err, sm_plan, sm_stats, sm_scan, sm_ret,
                   sm_mv, sm_n_mv, sm_re, sm_since>>
    /\ UNCHANGED <<storeVars, trainVars, idxVars, eqVars, mgVars>>

\* self.sample(rng, state, params, R) is entered, with the state of the
\* last call and the params of the last init or update.
SampleCall ==
    /\ sm_pc = "ready"
    /\ sm_ops < MaxSmOps
    /\ sm_plan' = SamplePlan(Mro(sm_bases), 1, sm_length)
    /\ sm_stats' = <<>>
    /\ sm_scan' = <<>>
    /\ sm_mv' = <<>>
    /\ sm_n_mv' = 0
    /\ sm_re' = <<>>
    /\ sm_ops' = sm_ops + 1
    /\ sm_pc' = "sampling"
    /\ UNCHANGED <<smConf, sm_params, sm_state, sm_err, sm_ret, sm_since>>
    /\ UNCHANGED <<storeVars, trainVars, idxVars, eqVars, mgVars>>

\* MetropolisSampler.sample
MoverStep ==
    /\ sm_pc = "sampling"
    /\ sm_plan # <<>>
    /\ Head(sm_plan) = "M"
    /\ \E prop_r \in [Walkers -> Positions] :
       \E gt \in Outcomes(sm_state, sm_params, prop_r) :
        LET out == MetropolisSample(sm_state, sm_params, prop_r, gt,
                                    sm_max_age, sm_target)
        IN  /\ sm_state' = out.state
            /\ sm_stats' = out.stats
            /\ sm_mv' = [prop_r |-> [i \in Walkers |->
                                        IF out.accepted[i]
                                        THEN out.prop.r[i]
                                        ELSE NoneInt],
                         accepted |-> out.accepted,
                         stats |-> out.stats]
    /\ sm_n_mv' = sm_n_mv + 1
    /\ sm_plan' = Tail(sm_plan)
    /\ UNCHANGED <<sm_pc, smConf, sm_params, sm_err, sm_scan, sm_ret,
                   sm_re, sm_since, sm_ops>>
    /\ UNCHANGED <<storeVars, trainVars, idxVars, eqVars, mgVars>>

\* ResampledSampler.sample after super().sample returned: the step counter,
\* the effective sample size, and lax.cond.
ResampleStep ==
    /\ sm_pc = "sampling"
    /\ sm_plan # <<>>
    /\ Head(sm_plan) = "R"
    /\ LET state == [sm_state EXCEPT !.step = @ + 1]
           lw == state.log_weight
           trig == Trigger(state.step, lw, sm_period, sm_treshold)
       IN  /\ sm_stats' = [ess |-> <<EssNum(lw), EssDen(lw)>>] @@ sm_stats
           /\ IF trig
              THEN \E idx \in [Walkers -> Walkers] :
                    /\ sm_state' = ResampleWalkers(state, idx)
                    /\ sm_re' = [resampled |-> TRUE]
              ELSE /\ sm_state' = state
                   /\ sm_re' = [resampled |-> FALSE]
           /\ sm_since' = IF trig THEN 0 ELSE sm_since + 1
    /\ sm_plan' = Tail(sm_plan)
    /\ UNCHANGED <<sm_pc, smConf, sm_params, sm_err, sm_scan, sm_ret,
                   sm_mv, sm_n_mv, sm_ops>>
    /\ UNCHANGED <<storeVars, trainVars, idxVars, eqVars, mgVars>>

\* lax.scan: one call of super().sample returned; its stats are stacked.
ScanPush ==
    /\ sm_pc = "sampling"
    /\ sm_plan # <<>>
    /\ Head(sm_plan) = "push"
    /\ sm_scan' = Append(sm_scan, sm_stats)
    /\ sm_plan' = Tail(sm_plan)
    /\ UNCHANGED <<sm_pc, smConf, sm_params, sm_state, sm_err, sm_stats, sm_ret,
                   sm_mv, sm_n_mv, sm_re, sm_since, sm_ops>>
    /\ UNCHANGED <<storeVars, trainVars, idxVars, eqVars, mgVars>>

\* DecorrSampler.sample after lax.scan: stats = {k: v[-1] ...}
ScanLast ==
    /\ sm_pc = "sampling"
    /\ sm_plan # <<>>
    /\ Head(sm_plan) = "last"
    /\ sm_stats' = Last(sm_scan)
    /\ sm_plan' = Tail(sm_plan)
    /\ UNCHANGED <<sm_pc, smConf, sm_params, sm_state, sm_err, sm_scan, sm_ret,
                   sm_mv, sm_n_mv, sm_re, sm_since, sm_ops>>
    /\ UNCHANGED <<storeVars, trainVars, idxVars, eqVars, mgVars>>

\* The outermost sample returns state, phys_conf, stats; what the call held
\* besides them is gone.
SampleReturn ==
    /\ sm_pc = "sampling"
    /\ sm_plan = <<>>
    /\ sm_ret' = [state |-> sm_state, stats |-> sm_stats]
    /\ sm_stats' = <<>>
    /\ sm_scan' = <<>>
    /\ sm_mv' = <<>>
    /\ sm_re' = <<>>
    /\ sm_pc' = "ready"
    /\ UNCHANGED <<smConf, sm_params, sm_state, sm_err, sm_plan, sm_n_mv,
                   sm_since, sm_ops>>
    /\ UNCHANGED <<storeVars, trainVars, idxVars, eqVars, mgVars>>

InitSm ==
    /\ SmIdle
    /\ size = 1
    /\ min_interval = 1
    /\ StoreInit
    /\ TrainIdle
    /\ IdxIdle
    /\ EqIdle
    /\ MgIdle

NextSm ==
    \/ Chain
    \/ SmInit
    \/ SmUpdate
    \/ SampleCall
    \/ MoverStep
    \/ ResampleStep
    \/ ScanPush
    \/ ScanLast
    \/ SampleReturn

SpecSm == InitSm /\ [][NextSm]_vars


\* ------------------------------------------------- claims: chained samplers
\* C11: for chain(DecorrSampler(length=L), mover), one sample call starts
\* from the state it was given, changes the state only by steps of the
\* mover, each one the mover's sample applied to the state the previous
\* step left, and returns after exactly L of them with the state after the
\* last step and the stats of the last step only.
C11_DecorrChain ==
    [][sm_bases = <<"D", "M">> =>
        /\ (sm_pc = "ready" /\ sm_pc' = "sampling") =>
                /\ sm_state' = sm_state
                /\ sm_n_mv' = 0
        /\ (sm_pc = "sampling" /\ sm_n_mv' = sm_n_mv) => sm_state' = sm_state
        /\ (sm_pc = "sampling" /\ sm_n_mv' # sm_n_mv) =>
                /\ sm_n_mv' = sm_n_mv + 1
                /\ \E prop_r \in [Walkers -> Positions], gt \in [Walkers -> BOOLEAN] :
                    LET out == MetropolisSample(sm_state, sm_params, prop_r, gt,
                                                sm_max_age, sm_target)
                    IN  /\ sm_state' = out.state
                        /\ sm_mv'.stats = out.stats
        /\ (sm_pc = "sampling" /\ sm_pc' = "ready") =>
                /\ sm_n_mv = sm_length
                /\ sm_ret'.state = sm_state
                /\ sm_ret'.stats = sm_mv.stats]_vars

\* C11 witness: a call on chain(DecorrSampler(length=L), mover) with L > 1
\* has returned after L steps of the mover, the first of which moved a walker
\* that the last one left where it was.
C11_Witness ==
    /\ sm_bases = <<"D", "M">>
    /\ sm_length > 1
    /\ sm_pc = "ready"
    /\ sm_n_mv = sm_length
    /\ sm_ret # <<>>
    /\ sm_ret.state = sm_state
    /\ sm_ret.stats.acceptance = 0
    /\ \E i \in Walkers : sm_state.age[i] = 1


\* C12 as stated: chain(...) rejects a composition whose last element is a
\* DecorrSampler or a ResampledSampler, so every sampler object that chain
\* has returned ends in a MetropolisSampler.
C12_RejectedAtConstruction ==
    sm_pc # "none" => Last(sm_bases) = "M"


\* C13: the part of ResampledSampler.sample after super().sample returned
\* adds 1 to step and resamples exactly when (period is set and the new
\* step >= period) or (treshold is set and ESS / batch size < treshold);
\* after resampling step is 0 and log_weight is 0 for every walker, so ESS
\* is the batch size, and every walker is a copy of one of the walkers
\* before; without resampling the state is the one super().sample returned
\* with step incremented. With only period = P set, resampling happens on
\* exactly every P-th call, and step is in 0..P-1 between calls.
C13_Resampling ==
    /\ [][(sm_plan # <<>> /\ Head(sm_plan) = "R" /\ sm_plan' = Tail(sm_plan)) =>
            LET stp == sm_state.step + 1
                lw == sm_state.log_weight
                by_period == sm_period # NoneInt /\ stp >= sm_period
                by_treshold ==
                    /\ sm_treshold # NoneInt
                    /\ EssNum(lw) * TresholdScale
                          < sm_treshold * NWalkers * EssDen(lw)
            IN  /\ (by_period \/ by_treshold) =>
                    /\ sm_state'.step = 0
                    /\ sm_state'.log_weight = Zeros
                    /\ EssNum(sm_state'.log_weight)
                          = NWalkers * EssDen(sm_state'.log_weight)
                    /\ sm_state'.tau = sm_state.tau
                    /\ \A i \in Walkers : \E j \in Walkers :
                            \A k \in WALKER_STATE : sm_state'[k][i] = sm_state[k][j]
                /\ ~(by_period \/ by_treshold) =>
                    sm_state' = [sm_state EXCEPT !.step = stp]
                /\ (sm_period # NoneInt /\ sm_treshold = NoneInt) =>
                    (sm_state'.step = 0 <=> sm_since + 1 = sm_period)]_vars
    /\ []((/\ sm_pc = "ready"
           /\ "step" \in DOMAIN sm_state
           /\ sm_period # NoneInt
           /\ sm_treshold = NoneInt) => sm_state.step \in 0..(sm_period - 1))

\* C13 witness: with only period = 2 set, the second call has just
\* resampled, after a first call that did not.
C13_Witness ==
    /\ sm_pc = "sampling"
    /\ sm_period = 2
    /\ sm_treshold = NoneInt
    /\ sm_ret # <<>>
    /\ sm_ret.state.step = 1
    /\ sm_re # <<>>
    /\ sm_re.resampled
    /\ sm_state.step = 0
    /\ sm_state.r # sm_ret.state.r


\* C15: MetropolisSampler.sample selects r, psi and age per walker as one
\* group: an accepted walker gets the proposed r, the wave function there
\* and age 0; a rejected walker keeps r and psi and its age grows by 1.
\* In every state after init, whatever samples, updates and resamplings
\* came before, every walker's psi is the wave function at its r for the
\* parameters of the last init or update. tau does not depend on which
\* walkers were accepted: it is the previous tau, scaled by the acceptance
\* ratio when target_acceptance is set.
C15_WalkerGroup ==
    /\ [][sm_n_mv' = sm_n_mv + 1 =>
            /\ \A i \in Walkers :
                IF sm_mv'.accepted[i]
                THEN /\ sm_state'.r[i] = sm_mv'.prop_r[i]
                     /\ sm_state'.psi[i] = LogPsi(sm_params, sm_mv'.prop_r[i])
                     /\ sm_state'.age[i] = 0
                ELSE /\ sm_state'.r[i] = sm_state.r[i]
                     /\ sm_state'.psi[i] = sm_state.psi[i]
                     /\ sm_state'.age[i] = sm_state.age[i] + 1
            /\ sm_state'.tau =
                    IF sm_target
                    THEN [sm_state.tau EXCEPT
                            ![CountTrue(sm_mv'.accepted, NWalkers)] = @ + 1]
                    ELSE sm_state.tau]_vars
    /\ [](sm_state # <<>> =>
            \A i \in Walkers : sm_state.psi[i] = LogPsi(sm_params, sm_state.r[i]))

\* C15 witness: after an update that changed the parameters, a step of the
\* mover accepted one walker, which moved to where the wave function
\* differs, and rejected another, and a resampling followed.
C15_Witness ==
    /\ sm_pc = "sampling"
    /\ sm_params = 1
    /\ sm_mv # <<>>
    /\ \E i, j \in Walkers :
        /\ sm_mv.accepted[i]
        /\ ~sm_mv.accepted[j]
    /\ sm_re # <<>>
    /\ sm_re.resampled
    /\ \E i, j \in Walkers : sm_state.psi[i] # sm_state.psi[j]


\* C20: with max_age a positive integer M, every walker's age is in 0..M in
\* every state after init, with or without DecorrSampler and
\* ResampledSampler in the chain; a walker whose age is M is accepted by
\* the next step of the mover whatever the acceptance test says, and its
\* age is 0 afterwards.
C20_MaxAge ==
    /\ []((sm_state # <<>> /\ sm_max_age # NoneInt /\ sm_max_age > 0) =>
            \A i \in Walkers : sm_state.age[i] \in 0..sm_max_age)
    /\ [][(sm_n_mv' = sm_n_mv + 1 /\ sm_max_age # NoneInt /\ sm_max_age > 0) =>
            \A i \in Walkers :
                sm_state.age[i] = sm_max_age =>
                    /\ sm_mv'.accepted[i]
                    /\ sm_state'.age[i] = 0
                    /\ sm_state'.r[i] = sm_mv'.prop_r[i]]_vars

\* C20 witness: with max_age = M > 1 and no resampling, a walker that a
\* call returned with age M was moved by the first step of the next call to
\* a position where the wave function is smaller, and has age 0.
C20_Witness ==
    /\ sm_bases = <<"D", "M">>
    /\ sm_max_age > 1
    /\ sm_pc = "sampling"
    /\ sm_n_mv = 1
    /\ sm_ret # <<>>
    /\ \E i \in Walkers :
        /\ sm_ret.state.age[i] = sm_max_age
        /\ sm_state.age[i] = 0
        /\ sm_state.psi[i] < sm_ret.state.psi[i]


\* C21: for a chained ResampledSampler, in every state after init the
\* largest log_weight of the batch is 0. A step of a sample call that does
\* not resample leaves log_weight as it is, resampling sets it to 0 for
\* every walker, and update adds 2 * (new log|psi| - old log|psi|) to each
\* walker's log_weight and then subtracts the largest of the results.
C21_LogWeightMax ==
    /\ []((sm_state # <<>> /\ "log_weight" \in DOMAIN sm_state) =>
            /\ \A i \in Walkers : sm_state.log_weight[i] <= 0
            /\ \E i \in Walkers : sm_state.log_weight[i] = 0)
    /\ [][(sm_state # <<>> /\ "log_weight" \in DOMAIN sm_state) =>
            /\ (sm_pc = "sampling" \/ sm_pc' = "sampling") =>
                    IF /\ sm_plan # <<>>
                       /\ Head(sm_plan) = "R"
                       /\ sm_plan' = Tail(sm_plan)
                       /\ sm_state'.step = 0
                    THEN sm_state'.log_weight = Zeros
                    ELSE sm_state'.log_weight = sm_state.log_weight
            /\ sm_ops' # sm_ops /\ sm_pc' = "ready" =>
                    LET raw == [i \in Walkers |->
                                    sm_state.log_weight[i]
                                        + 2 * (sm_state'.psi[i] - sm_state.psi[i])]
                    IN  \E m \in Range(raw) :
                            /\ \A i \in Walkers : raw[i] <= m
                            /\ sm_state'.log_weight =
                                    [i \in Walkers |-> raw[i] - m]]_vars

\* C21 witness: an update changed the weights of the walkers, and a sample
\* call that did not resample returned them as they were.
C21_Witness ==
    /\ sm_pc = "ready"
    /\ sm_ret # <<>>
    /\ "log_weight" \in DOMAIN sm_state
    /\ sm_state.step > 0
    /\ sm_state.log_weight # Zeros
    /\ sm_ret.state.log_weight = sm_state.log_weight


\* C22 as stated: in every shuffle mode (batch_size <= n_mols always holds
\* here), the indices that one sample call returns are pairwise distinct,
\* also when the call wraps around into the next permutation.
C22_DistinctInCall ==
    \A d \in DOMAIN returned :
        \A i, j \in DOMAIN returned[d] :
            returned[d][i] = returned[d][j] => i = j
=============================================================================
